---- MODULE Spec2Model ----
(***************************************************************************)
(* BAJC report generator (BAJCReportGenerator.py, finalapp.py).            *)
(*                                                                         *)
(* A text is a sequence of strings whose concatenation is the Python       *)
(* string.  Every text the code inspects (labels, cells, names) is split   *)
(* into one-character strings, so that trimming, substring search,         *)
(* splitting and the header pattern are computed character by character,   *)
(* as the Python code computes them; a literal the code only writes into   *)
(* the document is kept in one piece.                                      *)
(***************************************************************************)
EXTENDS Naturals, Integers, Sequences, FiniteSets, TLC

VARIABLES
    pc,               \* "start" before the operation under study ran, "done" after
    columns,          \* df.columns handed to clean_column_names
    cleaned_columns,  \* df.columns after clean_column_names
    headers,          \* all_values[0] in get_data
    unique_headers,   \* the labels get_data gives the data frame
    variant,          \* "staff" or "campus": the report operation invoked
    source,           \* "ok", or "unavailable" when fetching the sheet fails
    data,             \* staff: the grid get_sheet_data returns (row 1 = headers)
    df,               \* the data frame: built from data (staff), given (campus)
    staff_name,       \* the requested subject (staff_name / staff_member)
    counts_data,      \* staff: the mapping calculate_likert_counts returned
    doc,              \* the elements added to the Document, in order
    files,            \* the files under reports/: a set of [path, doc]
    messages,         \* the st.error / st.success calls, in order
    result,           \* the value the operation returned
    outcome,          \* "none", "returned" or "raised" (an exception escaped)
    credentials_path, \* finalapp: "set", or "none" when no file was uploaded
    report_generated, \* st.session_state.report_generated of streamlit_app
    report_path,      \* st.session_state.report_path: a text, or None
    report_type       \* st.session_state.report_type: "staff", "campus_rep", "none"

cleanVars == <<columns, cleaned_columns>>

headerVars == <<headers, unique_headers>>

reportVars ==
    <<variant, source, data, df, staff_name, counts_data, doc, files, messages,
      result, outcome>>

appVars == <<credentials_path, report_generated, report_path, report_type>>

vars == <<pc, cleanVars, headerVars, reportVars, appVars>>

\* the variables an operation does not touch, at their idle values
NoClean == columns = <<>> /\ cleaned_columns = <<>>

NoHeaders == headers = <<>> /\ unique_headers = <<>>

Pending == [kind |-> "pending"]

NoReport ==
    /\ variant = "none"
    /\ source = "ok"
    /\ data = <<>>
    /\ df = <<>>
    /\ staff_name = <<>>
    /\ counts_data = <<>>
    /\ doc = <<>>
    /\ files = {}
    /\ messages = <<>>
    /\ result = Pending
    /\ outcome = "none"

\* no application page is running: nothing uploaded, an empty session
NoApp ==
    /\ credentials_path = "none"
    /\ report_generated = FALSE
    /\ report_path = <<"None">>
    /\ report_type = "none"

(***************************************************************************)
(* Text helpers: str.strip, the `in` operator on strings, str.split.       *)
(***************************************************************************)
NL == "\n"

\* the characters str.strip() removes and \s matches (those the model draws)
Whitespace == {" ", NL}

IsSpace(c) == c \in Whitespace

RECURSIVE LStrip(_)
LStrip(t) == IF t # <<>> /\ IsSpace(Head(t)) THEN LStrip(Tail(t)) ELSE t

RECURSIVE RStrip(_)
RStrip(t) ==
    IF t # <<>> /\ IsSpace(t[Len(t)]) THEN RStrip(SubSeq(t, 1, Len(t) - 1)) ELSE t

\* str.strip(): leading and trailing whitespace removed
Strip(t) == RStrip(LStrip(t))

\* `c in t` for a single character
HasChar(t, c) == \E p \in 1..Len(t) : t[p] = c

\* `s in t`: s occurs in t as a contiguous substring (the empty text always does)
Contains(t, s) ==
    \E p \in 0..(Len(t) - Len(s)) : SubSeq(t, p + 1, p + Len(s)) = s

Min(S) == CHOOSE m \in S : \A n \in S : m <= n

Max(S) == CHOOSE m \in S : \A n \in S : n <= m

(***************************************************************************)
(* Header Normalizer: clean_column_names.                                  *)
(***************************************************************************)
\* '.' of the pattern: any character but a line break (no re.DOTALL)
Dot(c) == c # NL

\* end of the whitespace run that starts after position i
SkipSpaces(col, i) ==
    Min({p \in (i + 1)..(Len(col) + 1) : p = Len(col) + 1 \/ ~IsSpace(col[p])})

\* re.match(r"(.*?)\s*\[(.*?)\]", col) with group 1 = col[1..i]: the anchored
\* prefix match exists when group 1 holds no line break, the first character
\* after the following whitespace is '[', and a ']' follows it with no line
\* break in between.  Nothing is required of what follows the ']'.
MatchesAt(col, i) ==
    LET j == SkipSpaces(col, i) IN
    /\ \A p \in 1..i : Dot(col[p])
    /\ j <= Len(col)
    /\ col[j] = "["
    /\ \E k \in (j + 1)..Len(col) :
          /\ col[k] = "]"
          /\ \A p \in (j + 1)..(k - 1) : Dot(col[p])

ReMatches(col) == \E i \in 0..Len(col) : MatchesAt(col, i)

\* the groups of the match: group 1 is lazy (shortest), group 2 is lazy
\* (ends before the first ']' after the '[')
ReGroups(col) ==
    LET i == Min({n \in 0..Len(col) : MatchesAt(col, n)})
        j == SkipSpaces(col, i)
        k == Min({n \in (j + 1)..Len(col) : col[n] = "]"})
    IN  [g1 |-> SubSeq(col, 1, i), g2 |-> SubSeq(col, j + 1, k - 1)]

Separator == <<" ", "-", " ">>

\* the loop body of clean_column_names for one label
CleanLabel(col) ==
    IF HasChar(col, "[") /\ HasChar(col, "]")
    THEN IF ReMatches(col)
         THEN LET m == ReGroups(col)
              IN  Strip(m.g1) \o Separator \o Strip(m.g2)
         ELSE col
    ELSE col

clean_column_names(cols) == [n \in 1..Len(cols) |-> CleanLabel(cols[n])]

(***************************************************************************)
(* SpecClean: clean_column_names applied to bounded label sequences.       *)
(***************************************************************************)
MaxLabelLen == 5

LabelChars == {"a", " ", NL, "[", "]"}

Texts(chars, n) == UNION {[1..m -> chars] : m \in 0..n}

Labels == Texts(LabelChars, MaxLabelLen)

\* the longest label that is given a neighbour
MaxPairedLabelLen == 3

\* a first column beside it, to observe positions: a plain label and a
\* bracketed one
SecondLabels == {<<"a">>, <<"a", " ", "[", "a", "]">>}

InitClean ==
    /\ pc = "start"
    /\ columns \in {<<l>> : l \in Labels}
                   \cup {<<s, l>> : s \in SecondLabels, l \in Texts(LabelChars, MaxPairedLabelLen)}
    /\ cleaned_columns = <<>>
    /\ NoHeaders
    /\ NoReport
    /\ NoApp

CleanColumnNames ==
    /\ pc = "start"
    /\ cleaned_columns' = clean_column_names(columns)
    /\ pc' = "done"
    /\ UNCHANGED <<columns, headerVars, reportVars, appVars>>

NextClean == CleanColumnNames

SpecClean == InitClean /\ [][NextClean]_vars

\* a label "<name> [<category>]": one '[' and one ']' after it, no other
\* bracket, and only whitespace after the ']'
HasNameCategoryForm(l) ==
    \E j \in 1..Len(l) : \E k \in (j + 1)..Len(l) :
        /\ l[j] = "["
        /\ l[k] = "]"
        /\ \A p \in (1..Len(l)) \ {j, k} : l[p] \notin {"[", "]"}
        /\ \A p \in (k + 1)..Len(l) : IsSpace(l[p])

PosOf(l, c) == Min({p \in 1..Len(l) : l[p] = c})

NameOf(l) == SubSeq(l, 1, PosOf(l, "[") - 1)

CategoryOf(l) == SubSeq(l, PosOf(l, "[") + 1, PosOf(l, "]") - 1)

\* C2: clean_column_names keeps the length and the order of the labels, and
\* every label of the form "<name> [<category>]" (whitespace around the parts
\* allowed) is replaced, at its own position, by "<name> - <category>" with
\* name and category trimmed.
C2_RewritesBracketedLabelsInPlace ==
    pc = "done" =>
        /\ Len(cleaned_columns) = Len(columns)
        /\ \A n \in 1..Len(columns) :
              HasNameCategoryForm(columns[n]) =>
                  cleaned_columns[n] =
                      Strip(NameOf(columns[n])) \o Separator
                          \o Strip(CategoryOf(columns[n]))

\* a label that is, as a whole, some text, a bracketed text and nothing but
\* whitespace after the closing bracket (the text may itself hold brackets)
IsBracketedPattern(l) ==
    \E j \in 1..Len(l) : \E k \in (j + 1)..Len(l) :
        /\ l[j] = "["
        /\ l[k] = "]"
        /\ \A p \in (k + 1)..Len(l) : IsSpace(l[p])

\* C3: every label that is not of the pattern "<text> [<text>]" (and nothing
\* else around it but whitespace) comes back from clean_column_names unchanged.
C3_NonMatchingLabelsUnchanged ==
    pc = "done" =>
        \A n \in 1..Len(columns) :
            ~IsBracketedPattern(columns[n]) => cleaned_columns[n] = columns[n]

(***************************************************************************)
(* get_data: duplicate headers are suffixed with their occurrence index.   *)
(* Headers are strings here: the only operations are equality and          *)
(* f"{header}_{n}".                                                        *)
(***************************************************************************)
\* the loop of get_data over all_values[0]; header_count is the dict of the
\* headers seen so far
RECURSIVE MakeUnique(_, _, _)
MakeUnique(hs, header_count, acc) ==
    IF hs = <<>> THEN acc
    ELSE LET header == Head(hs) IN
         IF header \in DOMAIN header_count
         THEN LET n == header_count[header] + 1 IN
              MakeUnique(Tail(hs),
                         [header_count EXCEPT ![header] = n],
                         Append(acc, header \o "_" \o ToString(n)))
         ELSE MakeUnique(Tail(hs),
                         [h \in DOMAIN header_count \cup {header} |->
                             IF h = header THEN 0 ELSE header_count[h]],
                         Append(acc, header))

EmptyDict == [h \in {} |-> 0]

MaxHeaders == 4

HeaderNames == {"A", "A_1", "A_2", "B"}

InitHeaders ==
    /\ pc = "start"
    /\ headers \in UNION {[1..n -> HeaderNames] : n \in 0..MaxHeaders}
    /\ unique_headers = <<>>
    /\ NoClean
    /\ NoReport
    /\ NoApp

GetDataHeaders ==
    /\ pc = "start"
    /\ unique_headers' = MakeUnique(headers, EmptyDict, <<>>)
    /\ pc' = "done"
    /\ UNCHANGED <<headers, cleanVars, reportVars, appVars>>

NextHeaders == GetDataHeaders

SpecHeaders == InitHeaders /\ [][NextHeaders]_vars

\* C6: the labels get_data gives the columns are pairwise distinct, whatever
\* the header row, a header that already looks like a suffixed duplicate
\* included.
C6_UniqueHeadersDistinct ==
    pc = "done" =>
        \A m, n \in 1..Len(unique_headers) :
            m # n => unique_headers[m] # unique_headers[n]

(***************************************************************************)
(* Response Counter: calculate_likert_counts.                              *)
(***************************************************************************)
SA == <<"S", "t", "r", "o", "n", "g", "l", "y", " ", "A", "g", "r", "e", "e">>

AG == <<"A", "g", "r", "e", "e">>

NE == <<"N", "e", "u", "t", "r", "a", "l">>

DI == <<"D", "i", "s", "a", "g", "r", "e", "e">>

SD == <<"S", "t", "r", "o", "n", "g", "l", "y", " ",
        "D", "i", "s", "a", "g", "r", "e", "e">>

STAFF_LIKERT_OPTIONS == <<SA, AG, NE, DI, SD>>

CAMPUS_REP_LIKERT_ORDER == <<SA, AG, NE, DI, SD>>

\* the cell pandas puts where a row of the grid is shorter than the header
None == <<"None">>

\* str(val): a text is itself, None is the four characters of "None"
Str(val) == IF val = None THEN <<"N", "o", "n", "e">> ELSE val

\* a data frame: its column labels and its rows, every row as wide as the labels
Frame(cols, rows) == [columns |-> cols, rows |-> rows]

\* pd.DataFrame(rows, columns=cols) raises unless the widest row is exactly as
\* wide as the header (no check when there is no row)
FrameFits(cols, rows) ==
    rows = <<>> \/ Max({Len(rows[r]) : r \in 1..Len(rows)}) = Len(cols)

\* pd.DataFrame(rows, columns=cols): shorter rows are filled with None
DataFrame(cols, rows) ==
    Frame(cols,
          [r \in 1..Len(rows) |->
              [c \in 1..Len(cols) |->
                  IF c <= Len(rows[r]) THEN rows[r][c] ELSE None]])

\* what `for val in df[col]` visits: the cells of the column when the label is
\* unique; when the label occurs several times df[col] is a DataFrame, and
\* iterating a DataFrame yields its column labels
Getitem(frame, col) ==
    LET at == {c \in 1..Len(frame.columns) : frame.columns[c] = col} IN
    IF Cardinality(at) = 1
    THEN [r \in 1..Len(frame.rows) |-> frame.rows[r][CHOOSE c \in at : TRUE]]
    ELSE [i \in 1..Cardinality(at) |-> col]

\* col.split(" - ")[-1]: the separators are found left to right, without
\* overlap; the result is what follows the last one (all of col if none)
RECURSIVE LastPart(_)
LastPart(col) ==
    LET at == {p \in 1..(Len(col) - 2) : SubSeq(col, p, p + 2) = Separator} IN
    IF at = {} THEN col ELSE LastPart(SubSeq(col, Min(at) + 3, Len(col)))

ZeroCounts == [o \in 1..Len(STAFF_LIKERT_OPTIONS) |-> 0]

\* upper-case letters that start an option, folded to lower case
FoldCase(t) ==
    [p \in 1..Len(t) |->
        CASE t[p] = "A" -> "a" [] t[p] = "S" -> "s" [] t[p] = "N" -> "n"
          [] t[p] = "D" -> "d" [] OTHER -> t[p]]

\* mutation of MatchingOption: the comparison ignores case
MatchingOptionAnyCase(val) ==
    LET hits == {o \in 1..Len(STAFF_LIKERT_OPTIONS) :
                    FoldCase(Strip(Str(val))) = FoldCase(STAFF_LIKERT_OPTIONS[o])}
    IN  IF hits = {} THEN 0 ELSE Min(hits)

\* the inner loop: the first option equal to the trimmed string form of val
\* (0 when there is none)
MatchingOption(val) ==
    LET hits == {o \in 1..Len(STAFF_LIKERT_OPTIONS) :
                    Strip(Str(val)) = STAFF_LIKERT_OPTIONS[o]}
    IN  IF hits = {} THEN 0 ELSE Min(hits)

\* the loop `for val in df[col]` over the visited values
RECURSIVE CountValues(_, _)
CountValues(vals, counts) ==
    IF vals = <<>> THEN counts
    ELSE LET o == MatchingOption(Head(vals)) IN
         CountValues(Tail(vals),
                     IF o = 0 THEN counts
                     ELSE [counts EXCEPT ![o] = counts[o] + 1])

\* counts_data[skill] = counts on an insertion-ordered dict: a key already
\* present keeps its place and takes the new value
DictSet(d, skill, counts) ==
    IF \E n \in 1..Len(d) : d[n].skill = skill
    THEN [n \in 1..Len(d) |->
             IF d[n].skill = skill THEN [skill |-> skill, counts |-> counts]
             ELSE d[n]]
    ELSE Append(d, [skill |-> skill, counts |-> counts])

\* mutation of StaffColumns: the filter on the subject is missing
StaffColumnsUnfiltered(frame, name) == frame.columns

\* staff_columns = [col for col in df.columns if staff_name in col]
StaffColumns(frame, name) ==
    SelectSeq(frame.columns, LAMBDA col : Contains(col, name))

RECURSIVE CountColumns(_, _, _)
CountColumns(frame, cols, acc) ==
    IF cols = <<>> THEN acc
    ELSE CountColumns(frame, Tail(cols),
                      DictSet(acc, LastPart(Head(cols)),
                              CountValues(Getitem(frame, Head(cols)), ZeroCounts)))

calculate_likert_counts(frame, name) ==
    CountColumns(frame, StaffColumns(frame, name), <<>>)

(***************************************************************************)
(* Chart Renderer and Report Assembler, staff variant.                     *)
(***************************************************************************)
Digits == <<"0", "1", "2", "3", "4", "5", "6", "7", "8", "9">>

\* str(n) for a count
RECURSIVE StrNat(_)
StrNat(n) ==
    IF n < 10 THEN <<Digits[n + 1]>>
    ELSE StrNat(n \div 10) \o <<Digits[(n % 10) + 1]>>

STAFF_COLORS == <<"#1a9641", "#a6d96a", "#ffff42", "#fdae61", "#d7191c">>

\* bar_width = 0.15, in thousandths of an axis unit
BarWidth == 150

\* mutation of BarPosition: the half bar width is not added back
BarPositionNoHalfWidth(m, i, n_options) ==
    1000 * m + i * BarWidth - (n_options * BarWidth) \div 2

\* positions = indices + i*bar_width - (n_options/2)*bar_width + bar_width/2,
\* in thousandths, for the option of 0-based index i and the cluster m
BarPosition(m, i, n_options) ==
    1000 * m + i * BarWidth - (n_options * BarWidth) \div 2 + BarWidth \div 2

\* the bars create_clustered_bar_chart_staff draws: for every option, in
\* order, one bar per skill
create_clustered_bar_chart_staff(counts, name) ==
    [title |-> name \o <<" - Likert Scale Response Distribution">>,
     ticks |-> [m \in 1..Len(counts) |-> counts[m].skill],
     bars |-> [i \in 1..Len(STAFF_LIKERT_OPTIONS) |->
                 [m \in 1..Len(counts) |->
                     [x |-> BarPosition(m - 1, i - 1, Len(STAFF_LIKERT_OPTIONS)),
                      height |-> counts[m].counts[i],
                      color |-> STAFF_COLORS[i],
                      label |-> STAFF_LIKERT_OPTIONS[i]]]]]

\* ax.bar(positions, counts, width=bar_width): a bar is centred on its
\* position and spans half the bar width to either side
BarLeft(bar) == bar.x - BarWidth \div 2

BarRight(bar) == bar.x + BarWidth \div 2

\* doc.add_table(rows, cols): every cell starts with empty text
AddTable(rows, cols) == [r \in 1..rows |-> [c \in 1..cols |-> <<>>]]

\* header_cells[0].text = label; header_cells[i+1].text = option
SetHeaderRow(table, label, options) ==
    [table EXCEPT ![1] =
        [c \in 1..Len(table[1]) |->
            IF c = 1 THEN label
            ELSE IF c - 1 <= Len(options) THEN options[c - 1] ELSE table[1][c]]]

\* mutation of StaffDataRow: a count of zero leaves its cell blank
StaffDataRowBlankZero(row, entry) ==
    [c \in 1..Len(row) |->
        IF c = 1 THEN entry.skill
        ELSE IF c - 1 <= Len(entry.counts) /\ entry.counts[c - 1] > 0
             THEN StrNat(entry.counts[c - 1])
             ELSE row[c]]

\* row_cells[0].text = skill; row_cells[j+1].text = str(counts[option])
StaffDataRow(row, entry) ==
    [c \in 1..Len(row) |->
        IF c = 1 THEN entry.skill
        ELSE IF c - 1 <= Len(entry.counts) THEN StrNat(entry.counts[c - 1])
             ELSE row[c]]

\* the summary table of the staff report (lines 275-290)
StaffTable(counts) ==
    LET blank == AddTable(Len(counts) + 1, Len(STAFF_LIKERT_OPTIONS) + 1)
        head == SetHeaderRow(blank, <<"Skill Category">>, STAFF_LIKERT_OPTIONS)
    IN  [r \in 1..Len(head) |->
            IF r >= 2 /\ r - 1 <= Len(counts)
            THEN StaffDataRow(head[r], counts[r - 1]) ELSE head[r]]

\* staff_name.replace(' ', '_')
ReplaceSpaces(t) == [p \in 1..Len(t) |-> IF t[p] = " " THEN "_" ELSE t[p]]

StaffOutputFile(name) == <<"reports/">> \o ReplaceSpaces(name) \o <<"_Report.docx">>

\* the elements generate_staff_report_docx adds to the document, in order
StaffDocument(name, counts) ==
    << [kind |-> "heading", level |-> 1, text |-> <<"Staff Report: ">> \o name],
       [kind |-> "picture",
        chart |-> create_clustered_bar_chart_staff(counts, name)],
       [kind |-> "caption",
        text |-> <<"Figure 1: Likert Scale Response Count Distribution">>],
       [kind |-> "heading", level |-> 2, text |-> <<"Response Summary">>],
       [kind |-> "table", cells |-> StaffTable(counts)],
       [kind |-> "paragraph", text |-> <<>>] >>

\* mutation of Save: the document is saved before the summary table and what
\* follows it are added
SaveBeforeTable(fs, path, document) ==
    {f \in fs : f.path # path} \cup {[path |-> path, doc |-> SubSeq(document, 1, 4)]}

\* doc.save(path): the file at path is created or replaced
Save(fs, path, document) ==
    {f \in fs : f.path # path} \cup {[path |-> path, doc |-> document]}

\* the content of a report an earlier run left under reports/
EarlierDoc == <<[kind |-> "earlier report"]>>

\* the folder reports/ before the operation: empty (or absent), or holding
\* the report an earlier run wrote at the same output path
EarlierFiles(path) == {{}, {[path |-> path, doc |-> EarlierDoc]}}

(***************************************************************************)
(* Pipeline Orchestrator, staff variant: process_staff_evaluation_docx.    *)
(***************************************************************************)
\* `if not data`: only the empty grid is falsy
NoData(grid) == grid = <<>>

\* process_staff_evaluation_docx(credentials_file, spreadsheet_id, sheet_name,
\* staff_name) on a sheet src that holds grid, with fs under reports/: how it
\* ends, its locals, the files and messages it leaves, and what it returns
process_staff_evaluation_docx(src, grid, name, fs) ==
    LET Raised == [outcome |-> "raised", df |-> <<>>, counts_data |-> <<>>,
                   doc |-> <<>>, files |-> fs, messages |-> <<>>,
                   result |-> Pending]
    IN  IF src = "unavailable"
        THEN \* connect_to_google_sheets / get_sheet_data raised
             Raised
        ELSE IF NoData(grid)
        THEN [Raised EXCEPT
                 !.outcome = "returned",
                 !.messages = <<[level |-> "error", what |-> "no data"]>>,
                 !.result = [kind |-> "dict", items |-> {}]]
        ELSE IF ~FrameFits(Head(grid), Tail(grid))
        THEN \* pd.DataFrame raised
             Raised
        ELSE LET raw == DataFrame(Head(grid), Tail(grid))
                 frame == Frame(clean_column_names(raw.columns), raw.rows)
                 counts == calculate_likert_counts(frame, name)
                 document == StaffDocument(name, counts)
                 path == StaffOutputFile(name)
             IN  [outcome |-> "returned",
                  df |-> frame,
                  counts_data |-> counts,
                  doc |-> document,
                  files |-> Save(fs, path, document),
                  messages |-> <<[level |-> "success", what |-> "generated",
                                  subject |-> name, path |-> path]>>,
                  result |-> [kind |-> "dict", items |-> {<<name, path>>}]]

ProcessStaffEvaluationDocx ==
    /\ pc = "start"
    /\ variant = "staff"
    /\ pc' = "done"
    /\ LET run == process_staff_evaluation_docx(source, data, staff_name, files)
       IN  /\ outcome' = run.outcome
           /\ df' = run.df
           /\ counts_data' = run.counts_data
           /\ doc' = run.doc
           /\ files' = run.files
           /\ messages' = messages \o run.messages
           /\ result' = run.result
    /\ UNCHANGED <<cleanVars, headerVars, variant, source, data, staff_name,
                   appVars>>

(***************************************************************************)
(* The inputs of the staff variant.                                        *)
(***************************************************************************)
MaxRows == 2

\* raw headers of the evaluation sheet
AlC == <<"A", "l", " ", "[", "C", "]">>

AliC == <<"A", "l", "i", " ", "[", "C", "]">>

AlP == <<"A", "l", " ", "[", "P", "]">>

Plain == <<"T", "i", "m", "e">>

HeaderRows ==
    {<<>>, <<AlC>>, <<Plain>>, <<AlC, AlC>>, <<AlC, AliC>>, <<AlC, AlP>>,
     <<Plain, AlC>>}

\* the cells a response sheet holds: two options as the form writes them, an
\* option with stray whitespace, and one in the wrong case with stray whitespace
StaffCells == {SA, AG, <<" ">> \o AG \o <<" ">>, <<" ", "a", "g", "r", "e", "e", " ">>}

\* the rows of a grid under a header: the API drops trailing empty cells, so a
\* row may be shorter than the header; under an empty first row a data row is
\* wider than the header
RowsUnder(header) ==
    UNION {[1..w -> StaffCells] : w \in 0..Max({Len(header), 1})}

\* the grids get_sheet_data returns: the API also drops trailing empty rows,
\* so a grid is empty or ends with a row that holds a cell
IsGrid(grid) ==
    \/ grid = <<>>
    \/ \E header \in HeaderRows : \E n \in 0..MaxRows :
          \E rows \in [1..n -> RowsUnder(header)] :
              /\ grid = <<header>> \o rows
              /\ grid[Len(grid)] # <<>>

StaffNames == {<<"A", "l">>, <<"Z", "e", "d">>}

InitStaff ==
    /\ variant = "staff"
    /\ \/ source = "ok" /\ IsGrid(data)
       \/ source = "unavailable" /\ data = <<>>
    /\ staff_name \in StaffNames
    /\ df = <<>>
    /\ counts_data = <<>>
    /\ doc = <<>>
    /\ files \in EarlierFiles(StaffOutputFile(staff_name))
    /\ messages = <<>>
    /\ result = Pending
    /\ outcome = "none"

(***************************************************************************)
(* Fixed-questionnaire (campus rep) variant: generate_docx_report.         *)
(* The data frame is a sequence of rows; a row holds the cell of the       *)
(* identity column (name), the cells of the five question columns          *)
(* (answers, in the order of likert_columns) and the cell of the comments  *)
(* column (comment).                                                       *)
(***************************************************************************)
question_labels ==
    << <<"Accessible & Responsive">>, <<"Clear Communication">>,
       <<"Useful Reflection Sessions">>, <<"More Peer Reflection Time">>,
       <<"Good Resource">> >>

campus_rep_colors == <<"#1a9641", "#a6d96a", "#ffff42", "#fdae61", "#d7191c">>

\* a missing value of pandas; get_all_values yields strings, never this
NaN == <<"NaN">>

\* Series.dropna()
DropNa(vals) == SelectSeq(vals, LAMBDA v : v # NaN)

\* Series.value_counts().to_dict(): every distinct value with its multiplicity
ValueCounts(vals) ==
    [v \in {vals[i] : i \in 1..Len(vals)} |->
        Cardinality({i \in 1..Len(vals) : vals[i] = v})]

\* value_counts.get(option, 0)
DictGet(d, key, default) == IF key \in DOMAIN d THEN d[key] ELSE default

\* the counts of one question column, per option in CAMPUS_REP_LIKERT_ORDER
CampusCounts(vals) ==
    LET value_counts == ValueCounts(DropNa(vals)) IN
    [o \in 1..Len(CAMPUS_REP_LIKERT_ORDER) |->
        DictGet(value_counts, CAMPUS_REP_LIKERT_ORDER[o], 0)]

\* mutation of FilterRows: the rows are not filtered by the subject
FilterRowsAnyName(rows, member) == rows

\* df[df["Name of Campus Representative"] == staff_member]
FilterRows(rows, member) == SelectSeq(rows, LAMBDA row : row.name = member)

\* every likert_columns[q] is a column of the frame: a row of a sheet without
\* the question columns holds no answers, and df_staff[col] raises KeyError
HasQuestionColumns(rows) ==
    \A r \in 1..Len(rows) : Len(rows[r].answers) = Len(question_labels)

\* df_staff[likert_columns[q]]
AnswerColumn(rows, q) == [r \in 1..Len(rows) |-> rows[r].answers[q]]

\* df_staff["Comments on Campus Representative Support"]
CommentColumn(rows) == [r \in 1..Len(rows) |-> rows[r].comment]

\* the bars generate_clustered_bar_graph_campus_rep draws
generate_clustered_bar_graph_campus_rep(df_staff) ==
    [title |-> df_staff[1].name \o <<" - Likert Scale Response Distribution">>,
     ticks |-> question_labels,
     bars |-> [i \in 1..Len(CAMPUS_REP_LIKERT_ORDER) |->
                 [m \in 1..Len(question_labels) |->
                     [x |-> BarPosition(m - 1, i - 1, Len(CAMPUS_REP_LIKERT_ORDER)),
                      height |-> CampusCounts(AnswerColumn(df_staff, m))[i],
                      color |-> campus_rep_colors[i],
                      label |-> CAMPUS_REP_LIKERT_ORDER[i]]]]]

\* row_cells[0].text = label; row_cells[j+1].text = str(count)
CampusDataRow(row, label, counts) ==
    [c \in 1..Len(row) |->
        IF c = 1 THEN label
        ELSE IF c - 1 <= Len(counts) THEN StrNat(counts[c - 1]) ELSE row[c]]

\* the summary table of the campus rep report (lines 487-508)
CampusTable(df_staff) ==
    LET blank == AddTable(Len(question_labels) + 1, Len(CAMPUS_REP_LIKERT_ORDER) + 1)
        head == SetHeaderRow(blank, <<"Question">>, CAMPUS_REP_LIKERT_ORDER)
    IN  [r \in 1..Len(head) |->
            IF r >= 2 /\ r - 1 <= Len(question_labels)
            THEN CampusDataRow(head[r], question_labels[r - 1],
                               CampusCounts(AnswerColumn(df_staff, r - 1)))
            ELSE head[r]]

\* the Comments section (lines 510-517): a bullet per listed comment, or the
\* placeholder when the list is empty
CommentsSection(df_staff) ==
    LET comments == DropNa(CommentColumn(df_staff)) IN
    <<[kind |-> "heading", level |-> 2, text |-> <<"Comments">>]>> \o
    (IF comments # <<>>
     THEN [n \in 1..Len(comments) |-> [kind |-> "bullet", text |-> comments[n]]]
     ELSE <<[kind |-> "paragraph", text |-> <<"No comments available.">>]>>)

\* c.isalnum() or c in ['_'], for the characters of the model
IsSafeChar(c) == c \notin (Whitespace \cup {"[", "]", "-", ".", "/", ":", "&"})

\* "".join(c for c in staff_member if c.isalnum() or c in ['_']).strip()
SafeName(member) == Strip(SelectSeq(member, IsSafeChar))

CampusOutputFile(member) ==
    <<"reports/campus_rep_report_">> \o SafeName(member) \o <<".docx">>

\* doc.add_heading(f"Campus Rep Report: {staff_member}", level=1)
CampusTitle(member) ==
    [kind |-> "heading", level |-> 1, text |-> <<"Campus Rep Report: ">> \o member]

\* the elements generate_docx_report adds to the document, in order
CampusDocument(member, df_staff) ==
    << CampusTitle(member),
       [kind |-> "picture",
        chart |-> generate_clustered_bar_graph_campus_rep(df_staff)],
       [kind |-> "caption",
        text |-> <<"Figure 1: Likert Scale Response Count Distribution">>],
       [kind |-> "heading", level |-> 2, text |-> <<"Response Summary">>],
       [kind |-> "table", cells |-> CampusTable(df_staff)] >>
    \o CommentsSection(df_staff)

\* generate_docx_report(df, staff_member) with fs under reports/: how it
\* ends, the document it assembled, the files and messages it leaves, and
\* what it returns
generate_docx_report(frame, member, fs) ==
    LET df_staff == FilterRows(frame, member) IN
    IF df_staff = <<>>
    THEN [outcome |-> "returned",
          doc |-> <<>>,
          files |-> fs,
          messages |-> <<[level |-> "error", what |-> "no data for subject",
                          subject |-> member]>>,
          result |-> [kind |-> "none"]]
    ELSE IF ~HasQuestionColumns(df_staff)
    THEN \* the title is added, then the chart renderer raises KeyError
         [outcome |-> "raised",
          doc |-> <<CampusTitle(member)>>,
          files |-> fs,
          messages |-> <<>>,
          result |-> Pending]
    ELSE LET document == CampusDocument(member, df_staff)
             path == CampusOutputFile(member)
         IN  [outcome |-> "returned",
              doc |-> document,
              files |-> Save(fs, path, document),
              messages |-> <<[level |-> "success", what |-> "saved",
                              path |-> path]>>,
              result |-> [kind |-> "path", path |-> path]]

GenerateDocxReport ==
    /\ pc = "start"
    /\ variant = "campus"
    /\ pc' = "done"
    /\ LET run == generate_docx_report(df, staff_name, files)
       IN  /\ outcome' = run.outcome
           /\ doc' = run.doc
           /\ files' = run.files
           /\ messages' = messages \o run.messages
           /\ result' = run.result
    /\ UNCHANGED <<cleanVars, headerVars, variant, source, data, df, staff_name,
                   counts_data, appVars>>

(***************************************************************************)
(* The inputs of the campus rep variant.                                   *)
(***************************************************************************)
CampusNames == {<<"J", "o">>, <<"S", "a", "m">>}

\* the cells of a question column: an option, the option with stray
\* whitespace, and a blank cell
CampusCells == {AG, <<" ">> \o AG \o <<" ">>, <<>>}

\* the answers of one respondent: any cell for the first question, and one
\* option for the other four
AnswerRows ==
    {[q \in 1..Len(question_labels) |-> IF q = 1 THEN a ELSE b] :
        a \in CampusCells, b \in {AG, SA}}

CommentCells == {<<>>, <<"o", "k">>}

CampusRows == [name : CampusNames, answers : AnswerRows, comment : CommentCells]

\* the rows of a sheet that lacks the question columns
BareRows == [name : CampusNames, answers : {<<>>}, comment : CommentCells]

InitCampus ==
    /\ variant = "campus"
    /\ source = "ok"
    /\ data = <<>>
    /\ \E n \in 0..MaxRows :
          \/ df \in [1..n -> CampusRows]
          \/ n >= 1 /\ df \in [1..n -> BareRows]
    /\ staff_name \in CampusNames
    /\ counts_data = <<>>
    /\ doc = <<>>
    /\ files \in EarlierFiles(CampusOutputFile(staff_name))
    /\ messages = <<>>
    /\ result = Pending
    /\ outcome = "none"

Init ==
    /\ pc = "start"
    /\ NoClean
    /\ NoHeaders
    /\ NoApp
    /\ (InitStaff \/ InitCampus)

Next == ProcessStaffEvaluationDocx \/ GenerateDocxReport

Spec == Init /\ [][Next]_vars

\* the operation wrote nothing under reports/: whatever is there is what an
\* earlier run left
NothingWritten == \A f \in files : f.doc = EarlierDoc

(***************************************************************************)
(* Claims about the Response Counter, on the staff pipeline.               *)
(***************************************************************************)
\* the staff operation got as far as counting and assembling the report
StaffCounted ==
    /\ pc = "done"
    /\ variant = "staff"
    /\ outcome = "returned"
    /\ result.kind = "dict"
    /\ result.items # {}

Options == 1..Len(STAFF_LIKERT_OPTIONS)

\* the columns of df whose label contains the subject identifier
Matched(c) == Contains(df.columns[c], staff_name)

MatchedColumns == {c \in 1..Len(df.columns) : Matched(c)}

\* the number of cells of column c whose trimmed string form is option o
ExactCells(c, o) ==
    Cardinality({r \in 1..Len(df.rows) :
                    Strip(Str(df.rows[r][c])) = STAFF_LIKERT_OPTIONS[o]})

\* the number of valid (non-excluded) cells of column c
ValidCells(c) ==
    Cardinality({r \in 1..Len(df.rows) :
                    \E o \in Options :
                        Strip(Str(df.rows[r][c])) = STAFF_LIKERT_OPTIONS[o]})

SumCounts(counts) == counts[1] + counts[2] + counts[3] + counts[4] + counts[5]

\* column c is the one whose distribution the metric of its name ends up with
\* (a later matched column of the same metric name replaces an earlier one)
IsMetricColumn(c) ==
    /\ c \in MatchedColumns
    /\ \A d \in MatchedColumns :
          d > c => LastPart(df.columns[d]) # LastPart(df.columns[c])

\* C1: for every matched column, each cell whose trimmed string form is an
\* enumeration value is counted in exactly that value's slot and no other cell
\* is counted: the metric's counts are the per-value cell counts of its column,
\* and they sum to the number of valid cells of the column.
C1_CountsSumToValidCells ==
    StaffCounted =>
        \A c \in MatchedColumns :
            \E n \in 1..Len(counts_data) :
                /\ counts_data[n].skill = LastPart(df.columns[c])
                /\ IsMetricColumn(c) =>
                      /\ \A o \in Options :
                            counts_data[n].counts[o] = ExactCells(c, o)
                      /\ SumCounts(counts_data[n].counts) = ValidCells(c)

\* C4: when the subject identifier is a substring of no column label, the
\* metric mapping is empty and no exception escapes.
C4_NoMatchGivesEmptyMapping ==
    (/\ pc = "done"
     /\ variant = "staff"
     /\ source = "ok"
     /\ ~NoData(data)
     /\ FrameFits(Head(data), Tail(data))
     /\ \A c \in 1..Len(clean_column_names(Head(data))) :
           ~Contains(clean_column_names(Head(data))[c], staff_name))
    => (outcome = "returned" /\ counts_data = <<>>)

\* a subject matching no column of a sheet that has columns and rows, counted
C4_Witness ==
    /\ StaffCounted
    /\ Len(df.columns) >= 2
    /\ Len(df.rows) >= 1
    /\ MatchedColumns = {}
    /\ counts_data = <<>>

\* C5: counting is a strict match: a metric counts under an enumeration value
\* at most the cells of its column that, with leading and trailing whitespace
\* removed, are exactly (case-sensitively) that value; " agree " is counted
\* under no value.
C5_StrictMatch ==
    StaffCounted =>
        \A n \in 1..Len(counts_data) :
            \E c \in MatchedColumns :
                /\ LastPart(df.columns[c]) = counts_data[n].skill
                /\ \A o \in Options : counts_data[n].counts[o] <= ExactCells(c, o)

LowerAgree == <<" ", "a", "g", "r", "e", "e", " ">>

\* a counted column holding both "Agree" and " agree ": only the first counts
C5_Witness ==
    /\ StaffCounted
    /\ \E c \in MatchedColumns :
          /\ IsMetricColumn(c)
          /\ \E r \in 1..Len(df.rows) : df.rows[r][c] = LowerAgree
          /\ \E r \in 1..Len(df.rows) : df.rows[r][c] = AG
          /\ \E n \in 1..Len(counts_data) :
                /\ counts_data[n].skill = LastPart(df.columns[c])
                /\ SumCounts(counts_data[n].counts) = 1
                /\ counts_data[n].counts[2] = 1

\* C10: the staff variant ends with the no-data outcome whenever the sheet
\* yields no data row (an empty grid, or the header row alone): the error is
\* reported, the result is empty, and no report is assembled or written.
C10_NoDataRowsNoReport ==
    (/\ pc = "done"
     /\ variant = "staff"
     /\ source = "ok"
     /\ (data = <<>> \/ Len(data) = 1))
    => /\ outcome = "returned"
       /\ messages = <<[level |-> "error", what |-> "no data"]>>
       /\ result = [kind |-> "dict", items |-> {}]
       /\ doc = <<>>
       /\ NothingWritten

(***************************************************************************)
(* Claims about the fixed-questionnaire variant and the summary table.     *)
(***************************************************************************)
\* generate_docx_report assembled and saved a report
CampusGenerated ==
    /\ pc = "done"
    /\ variant = "campus"
    /\ outcome = "returned"
    /\ result.kind = "path"

\* the rows of the requested subject
SubjectRows == SelectSeq(df, LAMBDA row : row.name = staff_name)

\* the count the campus rep report shows for question q and option o
ShownCount(q, o) == doc[2].chart.bars[o][q].height

\* C7: for every question column, the value-multiset counting of the campus
\* rep report and the per-row scanning of the staff counter give the same
\* count for every enumeration value.
C7_CampusCountingEqualsRowScanning ==
    CampusGenerated =>
        \A q \in 1..Len(question_labels) : \A o \in Options :
            ShownCount(q, o)
                = CountValues(AnswerColumn(SubjectRows, q), ZeroCounts)[o]

\* the table of the assembled document
SummaryTable == doc[5].cells

\* the number a text of decimal digits denotes (-1 if it is no such text)
DigitValue(ch) ==
    IF \E d \in 1..10 : Digits[d] = ch
    THEN (CHOOSE d \in 1..10 : Digits[d] = ch) - 1 ELSE -1

RECURSIVE DecimalValue(_)
DecimalValue(t) ==
    IF t = <<>> THEN -1
    ELSE IF DigitValue(t[Len(t)]) < 0 THEN -1
    ELSE IF Len(t) = 1 THEN DigitValue(t[1])
    ELSE IF DecimalValue(SubSeq(t, 1, Len(t) - 1)) < 0 THEN -1
    ELSE 10 * DecimalValue(SubSeq(t, 1, Len(t) - 1)) + DigitValue(t[Len(t)])

\* a table of metrics+1 rows and options+1 columns whose first row is the
\* label and the enumeration values in order
TableShape(t, metrics, label) ==
    /\ Len(t) = metrics + 1
    /\ \A r \in 1..Len(t) : Len(t[r]) = Len(STAFF_LIKERT_OPTIONS) + 1
    /\ t[1][1] = label
    /\ \A o \in Options : t[1][o + 1] = STAFF_LIKERT_OPTIONS[o]

\* C8: in a generated report of either variant the summary table has
\* (number of metrics + 1) rows and (enumeration size + 1) columns; the header
\* row holds the label and the enumeration values in order; every metric row
\* holds the metric label and then, in enumeration order, each count written
\* as a non-blank decimal text, zero included.
C8_SummaryTableComplete ==
    /\ StaffCounted =>
          /\ TableShape(SummaryTable, Len(counts_data), <<"Skill Category">>)
          /\ \A m \in 1..Len(counts_data) :
                /\ SummaryTable[m + 1][1] = counts_data[m].skill
                /\ \A o \in Options :
                      /\ SummaryTable[m + 1][o + 1] # <<>>
                      /\ DecimalValue(SummaryTable[m + 1][o + 1])
                            = counts_data[m].counts[o]
    /\ CampusGenerated =>
          /\ TableShape(SummaryTable, Len(question_labels), <<"Question">>)
          /\ \A q \in 1..Len(question_labels) :
                /\ SummaryTable[q + 1][1] = question_labels[q]
                /\ \A o \in Options :
                      /\ SummaryTable[q + 1][o + 1] # <<>>
                      /\ DecimalValue(SummaryTable[q + 1][o + 1]) = ShownCount(q, o)

\* a staff report of two metrics with a zero and a non-zero count in its table
C8_Witness ==
    /\ StaffCounted
    /\ Len(counts_data) = 2
    /\ Len(SummaryTable) = 3
    /\ \E m \in 1..2 : \E o, z \in Options :
          /\ counts_data[m].counts[o] = 2
          /\ SummaryTable[m + 1][o + 1] = <<"2">>
          /\ counts_data[m].counts[z] = 0
          /\ SummaryTable[m + 1][z + 1] = <<"0">>

\* the elements of the document after the "Comments" heading
ListedComments == SubSeq(doc, 7, Len(doc))

NonEmptyComments == SelectSeq(CommentColumn(SubjectRows), LAMBDA c : c # <<>>)

\* C9: the Comments section lists exactly the non-empty comments of the
\* subject's rows, one bullet each, in row order, and shows the placeholder
\* line exactly when the subject has no non-empty comment.
C9_CommentsSection ==
    CampusGenerated =>
        /\ doc[6] = [kind |-> "heading", level |-> 2, text |-> <<"Comments">>]
        /\ ListedComments =
              IF NonEmptyComments = <<>>
              THEN <<[kind |-> "paragraph", text |-> <<"No comments available.">>]>>
              ELSE [n \in 1..Len(NonEmptyComments) |->
                       [kind |-> "bullet", text |-> NonEmptyComments[n]]]

(***************************************************************************)
(* Claim about the number of metrics of the Response Counter.              *)
(***************************************************************************)
\* the n-th matched column, in the order of the frame
NthMatched(n) ==
    CHOOSE c \in MatchedColumns : Cardinality({d \in MatchedColumns : d < c}) = n - 1

\* C15: calculate_likert_counts returns one distribution per matched column:
\* the result has as many metrics as there are columns whose label contains
\* the subject identifier, and the n-th metric is named after the n-th matched
\* column and counts exactly the cells of that column, also when two matched
\* columns have the same text after the last " - ".
C15_OneDistributionPerMatchedColumn ==
    StaffCounted =>
        /\ Len(counts_data) = Cardinality(MatchedColumns)
        /\ \A n \in 1..Len(counts_data) :
              /\ counts_data[n].skill = LastPart(df.columns[NthMatched(n)])
              /\ \A o \in Options :
                    counts_data[n].counts[o] = ExactCells(NthMatched(n), o)

(***************************************************************************)
(* Claims about the outcomes of the two report operations.                 *)
(***************************************************************************)
\* no row of the data frame carries the requested subject in its identity
\* column
NoRowOfSubject == \A r \in 1..Len(df) : df[r].name # staff_name

\* C11: in the fixed-questionnaire variant, when no row's identity cell
\* equals the requested subject, generate_docx_report reports the subject as
\* not found with one error message, returns no path, raises nothing and
\* writes no report file.
C11_SubjectNotFoundReported ==
    (/\ pc = "done"
     /\ variant = "campus"
     /\ source = "ok"
     /\ NoRowOfSubject)
    => /\ outcome = "returned"
       /\ result = [kind |-> "none"]
       /\ messages = <<[level |-> "error", what |-> "no data for subject",
                        subject |-> staff_name]>>
       /\ doc = <<>>
       /\ NothingWritten

\* the frame holds rows, all of another subject, a report of the requested
\* subject exists from an earlier run, and the operation has returned
C11_Witness ==
    /\ pc = "done"
    /\ variant = "campus"
    /\ Len(df) = MaxRows
    /\ NoRowOfSubject
    /\ files # {}
    /\ result = [kind |-> "none"]

\* the output path of the operation invoked
ReportPath ==
    IF variant = "staff" THEN StaffOutputFile(staff_name)
    ELSE CampusOutputFile(staff_name)

\* the operation returned the path of a report
ReturnedPath ==
    /\ outcome = "returned"
    /\ \/ result = [kind |-> "path", path |-> ReportPath]
       \/ result = [kind |-> "dict", items |-> {<<staff_name, ReportPath>>}]

Kinds(d) == [n \in 1..Len(d) |-> d[n].kind]

\* every assembly step of the variant has added its element to the document
FullyAssembled ==
    IF variant = "staff"
    THEN Kinds(doc) = <<"heading", "picture", "caption", "heading", "table",
                        "paragraph">>
    ELSE /\ Len(doc) >= 7
         /\ SubSeq(Kinds(doc), 1, 6) =
                <<"heading", "picture", "caption", "heading", "table", "heading">>
         /\ \A n \in 7..Len(doc) : doc[n].kind \in {"bullet", "paragraph"}

\* C12: in both variants the document is written only after every assembly
\* step: when a path is returned, the one file at the output path holds the
\* document as finally assembled (title, chart, caption, heading, table, and
\* the comments or the closing paragraph); when the operation fails or
\* returns no path, nothing is written or overwritten.
C12_SavedLastOrNotAtAll ==
    pc = "done" =>
        IF ReturnedPath
        THEN /\ FullyAssembled
             /\ files = {[path |-> ReportPath, doc |-> doc]}
        ELSE NothingWritten

\* the campus rep operation failed after the title was added (the sheet has
\* no question columns) while an earlier report sits at the output path
C12_Witness ==
    /\ pc = "done"
    /\ variant = "campus"
    /\ outcome = "raised"
    /\ doc = <<CampusTitle(staff_name)>>
    /\ files = {[path |-> ReportPath, doc |-> EarlierDoc]}

\* a success message of the operation
Successes == {n \in 1..Len(messages) : messages[n].level = "success"}

\* C13: in the staff variant, when the sheet has data rows and no column
\* label contains the requested subject, the caller is told that the subject
\* was not found: no success is reported and no report path is returned for
\* the subject.
C13_UnknownSubjectNotReportedAsSuccess ==
    (/\ StaffCounted
     /\ Len(df.rows) >= 1
     /\ MatchedColumns = {})
    => /\ Successes = {}
       /\ \A item \in result.items : item[1] # staff_name

(***************************************************************************)
(* Claims about the Chart Renderer.                                        *)
(***************************************************************************)
\* the chart of the report the operation assembled
Chart == doc[2].chart

\* the colour a palette gives the option of a given label
ColourOf(options, colours, label) ==
    colours[CHOOSE i \in 1..Len(options) : options[i] = label]

\* C14: in the chart of either variant (positions in thousandths of an axis
\* unit) the bar of option i (0-based) in cluster m is placed at
\* m + i*w - 2*w, so that in every cluster the bars stand left to right in
\* enumeration order without overlapping, the cluster is centred on its tick
\* m, the last bar of a cluster ends before the first bar of the next one
\* starts, and every bar has the colour that both the staff and the campus rep
\* palette give its option.
C14_ClusteredBars ==
    (pc = "done" /\ ReturnedPath) =>
        LET bars == Chart.bars
            n == Len(bars)
        IN  /\ n = Len(STAFF_LIKERT_OPTIONS)
            /\ \A i \in 1..n :
                  /\ Len(bars[i]) = Len(Chart.ticks)
                  /\ \A m \in 1..Len(bars[i]) :
                        /\ bars[i][m].label = STAFF_LIKERT_OPTIONS[i]
                        /\ bars[i][m].x =
                              1000 * (m - 1) + (i - 1) * BarWidth - 2 * BarWidth
                        /\ i < n =>
                              /\ bars[i][m].x < bars[i + 1][m].x
                              /\ BarRight(bars[i][m]) <= BarLeft(bars[i + 1][m])
                        /\ m < Len(bars[i]) =>
                              BarRight(bars[n][m]) < BarLeft(bars[1][m + 1])
                        /\ BarLeft(bars[1][m]) + BarRight(bars[n][m])
                              = 2 * 1000 * (m - 1)
                        /\ bars[i][m].color =
                              ColourOf(STAFF_LIKERT_OPTIONS, STAFF_COLORS,
                                       bars[i][m].label)
                        /\ bars[i][m].color =
                              ColourOf(CAMPUS_REP_LIKERT_ORDER, campus_rep_colors,
                                       bars[i][m].label)

\* a campus rep chart with its five clusters of five bars was drawn
C14_Witness ==
    /\ CampusGenerated
    /\ Len(Chart.ticks) = Len(question_labels)
    /\ \A i \in 1..Len(CAMPUS_REP_LIKERT_ORDER) :
          Len(Chart.bars[i]) = Len(question_labels)
    /\ \E m \in 1..Len(question_labels) : Chart.bars[2][m].height > 0

(***************************************************************************)
(* finalapp.py: the handler of the "Generate Report" button of main.  The  *)
(* page shows, in order, the messages of process_staff_evaluation_docx and *)
(* those of the handler; the download button and the preview are recorded  *)
(* among them.                                                             *)
(***************************************************************************)
FinalappGenerateReport ==
    /\ pc = "start"
    /\ variant = "finalapp"
    /\ pc' = "done"
    /\ IF credentials_path = "none"
       THEN /\ messages' = <<[level |-> "warning", what |-> "upload credentials"]>>
            /\ UNCHANGED <<df, counts_data, doc, files, result, outcome>>
       ELSE IF Strip(staff_name) = <<>>
       THEN /\ messages' = <<[level |-> "warning", what |-> "enter a staff name"]>>
            /\ UNCHANGED <<df, counts_data, doc, files, result, outcome>>
       ELSE LET name == Strip(staff_name)
                run == process_staff_evaluation_docx(source, data, name, files)
                response == run.result
            IN  /\ df' = run.df
                /\ counts_data' = run.counts_data
                /\ doc' = run.doc
                /\ files' = run.files
                /\ result' = response
                /\ outcome' = "returned"
                /\ messages' =
                      IF run.outcome = "raised"
                      THEN \* except Exception as e: st.error(...)
                           run.messages \o
                           <<[level |-> "error", what |-> "failed to generate"]>>
                      ELSE run.messages \o
                           <<[level |-> "success", what |-> "report generated",
                              subject |-> name]>> \o
                           (IF \E item \in response.items : item[1] = name
                            THEN LET file_path ==
                                        (CHOOSE item \in response.items :
                                            item[1] = name)[2]
                                 IN  <<[level |-> "download", path |-> file_path],
                                       [level |-> "preview", path |-> file_path]>>
                            ELSE <<>>)
    /\ UNCHANGED <<cleanVars, headerVars, variant, source, data, staff_name,
                   appVars>>

\* what the user typed into "Staff Name to Process"
FinalappNames == {<<" ", "A", "l">>, <<"Z", "e", "d">>}

BlankName == <<" ">>

InitFinalapp ==
    /\ pc = "start"
    /\ NoClean
    /\ NoHeaders
    /\ variant = "finalapp"
    /\ \/ /\ credentials_path = "set"
          /\ \/ source = "ok" /\ IsGrid(data)
             \/ source = "unavailable" /\ data = <<>>
          /\ staff_name \in FinalappNames
       \/ /\ credentials_path = "set"
          /\ source = "ok"
          /\ data = <<>>
          /\ staff_name = BlankName
       \/ /\ credentials_path = "none"
          /\ source = "ok"
          /\ data = <<>>
          /\ staff_name \in FinalappNames \cup {BlankName}
    /\ df = <<>>
    /\ counts_data = <<>>
    /\ doc = <<>>
    /\ files = {}
    /\ messages = <<>>
    /\ result = Pending
    /\ outcome = "none"
    /\ report_generated = FALSE
    /\ report_path = <<"None">>
    /\ report_type = "none"

NextFinalapp == FinalappGenerateReport

SpecFinalapp == InitFinalapp /\ [][NextFinalapp]_vars

\* the page shows "Report generated for <subject>"
ShowsReportGenerated ==
    \E n \in 1..Len(messages) :
        /\ messages[n].level = "success"
        /\ messages[n].what = "report generated"

\* C16: in the "Generate Report" flow of finalapp, the success message
\* "Report generated for <subject>" is shown only when
\* process_staff_evaluation_docx produced a report file for that subject: its
\* result names a path for the subject and the file is there; with the empty
\* result no success message is shown.
C16_SuccessOnlyWithReport ==
    (pc = "done" /\ variant = "finalapp" /\ ShowsReportGenerated)
    => /\ result.kind = "dict"
       /\ \E item \in result.items :
             /\ item[1] = Strip(staff_name)
             /\ \E f \in files : f.path = item[2]

(***************************************************************************)
(* streamlit_app: one action per script run that a button starts.  The     *)
(* session state (report_generated, report_path, report_type) and the      *)
(* folder reports/ outlive a run; the other variables hold the inputs,     *)
(* locals and messages of the most recent run.                             *)
(***************************************************************************)
\* the sheets a run of the staff page may find
AppGrids == {<<>>, <<<<AlC>>, <<AG>>>>, <<<<AlC>>, <<SA>>>>}

AllAgree == [q \in 1..Len(question_labels) |-> AG]

\* the frames get_data may return to a run of the campus rep page: a sheet
\* with its header row alone, or with one response
AppFrames ==
    {<<>>} \cup
    {<<row>> : row \in [name : CampusNames, answers : {AllAgree},
                        comment : CommentCells] \cup BareRows}

\* `if st.session_state.get('report_generated') and
\*     st.session_state.get('report_path')`
PreviewShown == report_generated /\ report_path # None

InitApp ==
    /\ pc = "app"
    /\ NoClean
    /\ NoHeaders
    /\ NoReport
    /\ credentials_path = "set"
    /\ report_generated = FALSE
    /\ report_path = None
    /\ report_type = "none"

\* "Generate Staff Report" (lines 591-608), then the preview section
AppGenerateStaffReport ==
    /\ pc = "app"
    /\ \E name \in StaffNames :
       \E src \in {"ok", "unavailable"} :
       \E grid \in (IF src = "ok" THEN AppGrids ELSE {<<>>}) :
          LET run == process_staff_evaluation_docx(src, grid, name, files)
              generated ==
                  /\ run.outcome = "returned"
                  /\ \E item \in run.result.items : item[1] = name
          IN  /\ variant' = "staff"
              /\ source' = src
              /\ data' = grid
              /\ staff_name' = name
              /\ df' = run.df
              /\ counts_data' = run.counts_data
              /\ doc' = run.doc
              /\ files' = run.files
              /\ result' = run.result
              /\ outcome' = run.outcome
              /\ messages' =
                    run.messages \o
                    (IF run.outcome = "raised"
                     THEN <<[level |-> "error", what |-> "an error occurred"]>>
                     ELSE IF generated
                     THEN <<[level |-> "success", what |-> "report generated",
                             subject |-> name]>>
                     ELSE <<>>)
              /\ IF generated
                 THEN /\ report_generated' = TRUE
                      /\ report_path' =
                            (CHOOSE item \in run.result.items : item[1] = name)[2]
                      /\ report_type' = "staff"
                 ELSE UNCHANGED <<report_generated, report_path, report_type>>
    /\ UNCHANGED <<pc, cleanVars, headerVars, credentials_path>>

\* "Generate Campus Rep Report" (lines 611-631), then the preview section
AppGenerateCampusRepReport ==
    /\ pc = "app"
    /\ \E src \in {"ok", "unavailable"} :
       \E frame \in (IF src = "ok" THEN AppFrames ELSE {<<>>}) :
       \E staff_member \in (IF frame = <<>> THEN {None}
                             ELSE {frame[r].name : r \in 1..Len(frame)}) :
          LET Raised == [outcome |-> "raised", doc |-> <<>>, files |-> files,
                         messages |-> <<>>, result |-> Pending]
              run == IF src = "unavailable"
                     THEN \* list_sheet_names / get_data raised
                          Raised
                     ELSE IF staff_member = None
                     THEN \* no name to select: iterating over None raises
                          Raised
                     ELSE generate_docx_report(frame, staff_member, files)
              generated == run.outcome = "returned" /\ run.result.kind = "path"
          IN  /\ variant' = "campus"
              /\ source' = src
              /\ data' = <<>>
              /\ staff_name' = staff_member
              /\ df' = frame
              /\ counts_data' = <<>>
              /\ doc' = run.doc
              /\ files' = run.files
              /\ result' = run.result
              /\ outcome' = run.outcome
              /\ messages' =
                    run.messages \o
                    (IF run.outcome = "raised"
                     THEN <<[level |-> "error", what |-> "an error occurred"]>>
                     ELSE IF generated
                     THEN <<[level |-> "success", what |-> "report generated",
                             subject |-> staff_member]>>
                     ELSE <<>>)
              /\ IF generated
                 THEN /\ report_generated' = TRUE
                      /\ report_path' = run.result.path
                      /\ report_type' = "campus_rep"
                 ELSE UNCHANGED <<report_generated, report_path, report_type>>
    /\ UNCHANGED <<pc, cleanVars, headerVars, credentials_path>>

\* "Generate Another Report" (lines 648-651): the button exists only in the
\* preview section; st.rerun() starts a run in which no report is generated
AppGenerateAnotherReport ==
    /\ pc = "app"
    /\ PreviewShown
    /\ report_generated' = FALSE
    /\ report_path' = None
    /\ source' = "ok"
    /\ data' = <<>>
    /\ df' = <<>>
    /\ counts_data' = <<>>
    /\ doc' = <<>>
    /\ messages' = <<>>
    /\ result' = Pending
    /\ outcome' = "none"
    /\ UNCHANGED <<pc, cleanVars, headerVars, variant, staff_name, files,
                   credentials_path, report_type>>

NextApp ==
    \/ AppGenerateStaffReport
    \/ AppGenerateCampusRepReport
    \/ AppGenerateAnotherReport

SpecApp == InitApp /\ [][NextApp]_vars

\* the report file the most recent run generated, or None
GeneratedPath ==
    IF outcome = "returned" /\ result.kind = "path" THEN result.path
    ELSE IF outcome = "returned" /\ result.kind = "dict" /\ result.items # {}
    THEN (CHOOSE item \in result.items : TRUE)[2]
    ELSE None

\* C17: in streamlit_app, whenever the preview and download section is shown
\* the report it presents is the file the most recent run generated: a run
\* whose generation fails or finds no data, and the run after "Generate
\* Another Report", show no preview.
C17_PreviewIsOfLatestGeneration ==
    PreviewShown => (GeneratedPath # None /\ report_path = GeneratedPath)

====
